---- MODULE Spec2Model ----
(***************************************************************************)
(* Model of PathwayControlComponent (pathway-control.component.ts): the    *)
(* voice command orchestration between the speech recognition service, the *)
(* speech synthesis service, the pathway service and the two dialogs.      *)
(*                                                                         *)
(* Every handler of the component is one action.  A handler is written as  *)
(* a function from the state record before it to the state record after    *)
(* it, composed of the calls the handler makes, in the order it makes      *)
(* them.  The record also carries `calls`, the trace of the calls made by  *)
(* the handler that ran last.                                              *)
(***************************************************************************)
EXTENDS Integers, Sequences, FiniteSets

VARIABLES
    recognitionSupported,   \* environment: what initRecognition() reports
    initialized,            \* ngOnInit has run
    speechRecognitionAvailable,
    pathIsListening,
    availableVoices,        \* the voices offered for selection
    currentSpeechRecognitionServiceSubscriptions,
    recActive,              \* recognition channel: started and not stopped
    pendingRec,             \* recognition lifecycle events not yet delivered
    utterances,             \* synthesis channel: utterances spoken, not ended
    speechStartOneShots,    \* one-shot onSpeechStart subscriptions (line 94)
    speechEndOneShots,      \* one-shot onSpeechEnd subscriptions (266, 375)
    appointmentDialogs,     \* open appointment creator dialogs
    helpDialogs,            \* open help dialogs
    sessionEnded,           \* history: EndSession processed, not started since
    calls                   \* history: calls made by the last handler

vars == <<recognitionSupported, initialized, speechRecognitionAvailable,
          pathIsListening, currentSpeechRecognitionServiceSubscriptions,
          recActive, pendingRec, utterances, speechStartOneShots,
          speechEndOneShots, appointmentDialogs, helpDialogs, sessionEnded,
          calls, availableVoices>>

----------------------------------------------------------------------------
(* Bounds of the model. *)

MaxPending == 2
MaxUtterances == 1
MaxOneShots == 2
MaxDialogs == 1
MaxVoices == 3

----------------------------------------------------------------------------
(* Strings are sequences of one-character strings. *)

UpperChars == <<"A","B","C","D","E","F","G","H","I","J","K","L","M","N","O",
                "P","Q","R","S","T","U","V","W","X","Y","Z","Ä","Ö","Ü">>
LowerChars == <<"a","b","c","d","e","f","g","h","i","j","k","l","m","n","o",
                "p","q","r","s","t","u","v","w","x","y","z","ä","ö","ü">>

WhiteSpace == {" ", "\t"}

LowerChar(c) ==
    IF \E i \in 1..Len(UpperChars) : UpperChars[i] = c
    THEN LowerChars[CHOOSE i \in 1..Len(UpperChars) : UpperChars[i] = c]
    ELSE c

toLowerCase(t) == [i \in 1..Len(t) |-> LowerChar(t[i])]

\* String.prototype.indexOf, 0-based, -1 when absent
indexOf(t, c) ==
    IF \E i \in 1..Len(t) : t[i] = c
    THEN (CHOOSE i \in 1..Len(t) : t[i] = c /\ \A j \in 1..(i-1) : t[j] # c) - 1
    ELSE -1

\* String.prototype.substr(start): a negative start counts from the end
substr(t, start) ==
    LET from == IF start < 0
                THEN (IF Len(t) + start < 0 THEN 0 ELSE Len(t) + start)
                ELSE (IF start > Len(t) THEN Len(t) ELSE start)
    IN  SubSeq(t, from + 1, Len(t))

\* String.prototype.trim
trim(t) ==
    LET keep == {i \in 1..Len(t) : t[i] \notin WhiteSpace}
    IN  IF keep = {} THEN <<>>
        ELSE LET first == CHOOSE i \in keep : \A j \in keep : i <= j
                 last  == CHOOSE i \in keep : \A j \in keep : j <= i
             IN  SubSeq(t, first, last)

\* A pattern is a sequence of characters; "\\s" stands for the class \s.
MatchesAt(t, i, pat) ==
    /\ i + Len(pat) - 1 <= Len(t)
    /\ \A k \in 1..Len(pat) :
          IF pat[k] = "\\s" THEN t[i + k - 1] \in WhiteSpace
                            ELSE t[i + k - 1] = pat[k]

\* RegExp match without anchors: the pattern occurs somewhere in t
match(t, pat) == \E i \in 1..Len(t) : MatchesAt(t, i, pat)

\* The regular expressions of the switch; the leading and trailing \w* match
\* the empty string, so each is the containment of its middle part.
NeuerTerminPattern == <<"n","e","u","e","r","\\s","t","e","r","m","i","n">>
WiederhoerenPattern ==
    <<"a","u","f","\\s","e","i","n","\\s","w","i","e","d","e","r","h","ö","r","e","n">>
HilfePattern == <<"h","i","l","f","e">>
LoeschePattern == <<"l","ö","s","c","h","e">>
ZeigePattern == <<"z","e","i","g","e">>

\* The switch with the help case moved to the front
SwitchCaseHelpFirst(r) ==
    IF match(r, HilfePattern) THEN "hilfe"
    ELSE IF match(r, NeuerTerminPattern) THEN "neuer termin"
    ELSE IF match(r, WiederhoerenPattern) THEN "auf ein wiederhören"
    ELSE IF match(r, LoeschePattern) THEN "lösche"
    ELSE IF match(r, ZeigePattern) THEN "zeige"
    ELSE "default"

\* The first case label of the switch that equals the transcript
SwitchCase(r) ==
    IF match(r, NeuerTerminPattern) THEN "neuer termin"
    ELSE IF match(r, WiederhoerenPattern) THEN "auf ein wiederhören"
    ELSE IF match(r, HilfePattern) THEN "hilfe"
    ELSE IF match(r, LoeschePattern) THEN "lösche"
    ELSE IF match(r, ZeigePattern) THEN "zeige"
    ELSE "default"

\* let eventName = recognitionResult.substr(recognitionResult.indexOf(" ")).trim()
EventName(r) == trim(substr(r, indexOf(r, " ")))

----------------------------------------------------------------------------
(* Inputs. *)

SP == <<" ">>
Zahnarzttermin == <<"z","a","h","n","a","r","z","t","t","e","r","m","i","n">>
Hausarzttermin == <<"h","a","u","s","a","r","z","t","t","e","r","m","i","n">>

Transcripts ==
    { <<"n","e","u","e","r">> \o SP \o <<"t","e","r","m","i","n">>,
      <<"N","e","u","e","r">> \o SP \o <<"T","e","r","m","i","n">>,
      <<"a","u","f">> \o SP \o <<"e","i","n">> \o SP
          \o <<"W","i","e","d","e","r","h","ö","r","e","n">>,
      HilfePattern,
      LoeschePattern \o SP \o Zahnarzttermin,
      <<"L","ö","s","c","h","e">> \o SP \o <<"Z","a","h","n">> \o SP \o <<"X">>,
      <<"b","i","t","t","e">> \o SP \o LoeschePattern \o SP \o <<"x">>,
      LoeschePattern \o SP,
      LoeschePattern,
      ZeigePattern \o SP \o Hausarzttermin,
      ZeigePattern \o SP \o SP,
      ZeigePattern,
      <<"h","a","l","l","o">> }

\* Phrases: a transcript is a prefix, a core and a suffix.
PhrasePrefixes ==
    {<<>>,
      <<"I","c","h"," ","m","ö","c","h","t","e"," ","e","i","n","e","n"," ">>,
      <<"h","i","l","f","e"," ">>,
      <<"b","i","t","t","e"," ">> }

PhraseCores ==
    {<<"n","e","u","e","r"," ","t","e","r","m","i","n">>,
      <<"N","e","u","e","r"," ","T","e","r","m","i","n">>,
      <<"N","E","U","E","R"," ","T","E","R","M","I","N">>,
      <<"n","e","u","e","n"," ","T","e","r","m","i","n">>,
      <<"n","e","u","e","r"," "," ","t","e","r","m","i","n">>,
      <<"n","e","u","e","r","t","e","r","m","i","n">>,
      <<"l","ö","s","c","h","e"," ","x">>,
      <<"z","e","i","g","e"," ","x">>,
      <<"h","i","l","f","e">>,
      <<"a","u","f"," ","e","i","n"," ","w","i","e","d","e","r","h","ö","r","e","n">>,
      <<"h","a","l","l","o">> }

PhraseSuffixes ==
    {<<>>,
      <<" ","b","i","t","t","e">>,
      <<" ","h","i","l","f","e">>,
      <<" ","l","ö","s","c","h","e"," ","y">> }

Phrases ==
    {p \o c \o x : p \in PhrasePrefixes, c \in PhraseCores, x \in PhraseSuffixes}

\* The voices the platform reports, and the lists it reports them in
Voices ==
    { [voiceURI |-> "Anna", lang |-> "de-DE"],
      [voiceURI |-> "Markus", lang |-> "de-DE"],
      [voiceURI |-> "Samantha", lang |-> "en-US"],
      [voiceURI |-> "Lea", lang |-> "de-AT"] }

VoiceLists == UNION {[1..n -> Voices] : n \in 0..MaxVoices}

\* What the appointment creator dialog closes with: nothing, a PathwayEvent
\* (truthiness of its date, header and content), or an error message.
NoResult == [present |-> FALSE, date |-> FALSE, header |-> FALSE,
             content |-> FALSE, data |-> "undefined"]
CreatedEvent == [present |-> TRUE, date |-> TRUE, header |-> TRUE,
                 content |-> TRUE, data |-> "undefined"]
ErrorMessage == [present |-> TRUE, date |-> FALSE, header |-> FALSE,
                 content |-> FALSE, data |-> "Fehler"]

DialogResults == {NoResult, CreatedEvent, ErrorMessage}

isPathwayEvent(objectToCheck) ==
    objectToCheck.date /\ objectToCheck.header /\ objectToCheck.content

----------------------------------------------------------------------------
(* The texts the component speaks and displays. *)

DeletedText == "Der Termin wurde erfolgreich gelöscht!"
NotFoundText == "Es gibt keinen Termin mit diesem Namen!"
CreatedText == "Sie haben erfolgreich einen neuen Termin angelegt."
UnavailableText == "Die Spracherkennung wird in diesem Browser nicht unterstützt. Bitte nutzen Sie Google Chrome."
FarewellText == "Man hört sich."
UnsupportedText == "Dieses Sprachkommando wird nicht unterstützt."

----------------------------------------------------------------------------
(* The state as a record, and the calls a handler is composed of. *)

State ==
    [ initialized |-> initialized,
      speechRecognitionAvailable |-> speechRecognitionAvailable,
      pathIsListening |-> pathIsListening,
      availableVoices |-> availableVoices,
      subscriptions |-> currentSpeechRecognitionServiceSubscriptions,
      recActive |-> recActive,
      pendingRec |-> pendingRec,
      utterances |-> utterances,
      speechStartOneShots |-> speechStartOneShots,
      speechEndOneShots |-> speechEndOneShots,
      appointmentDialogs |-> appointmentDialogs,
      helpDialogs |-> helpDialogs,
      sessionEnded |-> sessionEnded,
      calls |-> <<>> ]

\* The synthesis channel keeps, of an utterance, what it announces: the
\* result of a deletion, a created appointment, or a message of the dialog.
UtteranceKind(text) ==
    IF text \in {DeletedText, NotFoundText} THEN "deletion"
    ELSE IF text = CreatedText THEN "created"
    ELSE "message"

UtterancesInProgress(s) == [i \in 1..Len(s.utterances) |-> s.utterances[i].kind]

\* Record a call and its argument.
Call(s, op, arg) == [s EXCEPT !.calls = Append(@, [op |-> op, arg |-> arg])]

\* A handler starts with an empty trace and its own name.
Handler(s, name, arg) == Call([s EXCEPT !.calls = <<>>], name, arg)

\* SpeechRecognitionService
initRecognition(s) == Call(s, "initRecognition", <<>>)

\* recorded with the utterances in progress when it is called
startRecognition(s) ==
    LET c == Call(s, "startRecognition", UtterancesInProgress(s))
    IN  IF s.recActive THEN c
        ELSE [c EXCEPT !.recActive = TRUE,
                       !.pendingRec = Append(@, "started"),
                       !.sessionEnded = FALSE]

stopRecognition(s) ==
    LET c == Call(s, "stopRecognition", <<>>)
    IN  IF s.recActive
        THEN [c EXCEPT !.recActive = FALSE, !.pendingRec = Append(@, "ended")]
        ELSE c

\* SpeechSynthesisService; recorded with whether the recognition is started
\* when it is called
speakUtterance(s, text) ==
    [Call(s, "speakUtterance", <<text, s.recActive>>)
        EXCEPT !.utterances =
            Append(@, [kind |-> UtteranceKind(text), started |-> FALSE])]

\* MatSnackBar
displayMessage(s, errorMessage) == Call(s, "displayMessage", <<errorMessage>>)

\* The three outputs of the component
emit(s, output, value) == Call(s, output, value)

\* The four subscriptions one setup pushes; recorded with the number of
\* subscriptions active when it is called
setupSpeechRecognitionBehaviour(s) ==
    [Call(s, "setupSpeechRecognitionBehaviour", <<Len(s.subscriptions)>>)
        EXCEPT !.subscriptions = @ \o <<"result", "started", "ended", "error">>]

\* History only: the one-shots pending now belong to a generation that ended.
MarkStale(s) ==
    [s EXCEPT !.speechEndOneShots =
        [i \in 1..Len(@) |-> [@[i] EXCEPT !.stale = TRUE]]]

unsubscribeFromAllSubscriptions(s) ==
    MarkStale([s EXCEPT !.subscriptions = <<>>])

restartSpeechRecognitionKeepingSubscriptions(s) ==
    startRecognition(
      setupSpeechRecognitionBehaviour(
        initRecognition(
          stopRecognition(
            MarkStale(Call(s, "restartSpeechRecognition", <<>>))))))

restartSpeechRecognition(s) ==
    startRecognition(
      setupSpeechRecognitionBehaviour(
        initRecognition(
          stopRecognition(
            unsubscribeFromAllSubscriptions(
              Call(s, "restartSpeechRecognition", <<>>))))))

----------------------------------------------------------------------------
(* Committing a handler's result. *)

\* The handlers of what is bound to happen: a lifecycle event is delivered,
\* an utterance starts and ends, a dialog is closed.
OwedHandlers ==
    {"onSpeechRecognitionStarted", "onSpeechRecognitionEnded",
     "onSpeechStart", "onSpeechEnd",
     "helpDialogAfterClosed", "appointmentDialogAfterClosed"}

\* The bounds hold back what the user and the recognizer may add; the
\* lifecycle events that an owed handler causes are never held back.
Bounded(r) ==
    /\ \/ Len(r.pendingRec) <= MaxPending
       \/ r.calls[1].op \in OwedHandlers
    /\ Len(r.utterances) <= MaxUtterances
    /\ Len(r.speechEndOneShots) <= MaxOneShots
    /\ r.appointmentDialogs + r.helpDialogs <= MaxDialogs

\* The handler's result r0 is computed once and assigned to the variables.
Commit(r0) == \E r \in {r0} :
    /\ Bounded(r)
    /\ initialized' = r.initialized
    /\ speechRecognitionAvailable' = r.speechRecognitionAvailable
    /\ pathIsListening' = r.pathIsListening
    /\ availableVoices' = r.availableVoices
    /\ currentSpeechRecognitionServiceSubscriptions' = r.subscriptions
    /\ recActive' = r.recActive
    /\ pendingRec' = r.pendingRec
    /\ utterances' = r.utterances
    /\ speechStartOneShots' = r.speechStartOneShots
    /\ speechEndOneShots' = r.speechEndOneShots
    /\ appointmentDialogs' = r.appointmentDialogs
    /\ helpDialogs' = r.helpDialogs
    /\ sessionEnded' = r.sessionEnded
    /\ calls' = r.calls
    /\ UNCHANGED recognitionSupported

----------------------------------------------------------------------------
(* ngOnInit *)

ngOnInitIgnoringAvailability(s, available) ==
    LET s1 == initRecognition(Handler(s, "ngOnInit", <<>>))
        s2 == [s1 EXCEPT !.speechRecognitionAvailable = available,
                         !.initialized = TRUE]
    IN  startRecognition(setupSpeechRecognitionBehaviour(s2))

ngOnInit(s, available) ==
    LET s1 == initRecognition(Handler(s, "ngOnInit", <<>>))
        s2 == [s1 EXCEPT !.speechRecognitionAvailable = available,
                         !.initialized = TRUE]
    IN  IF ~s2.speechRecognitionAvailable
        THEN displayMessage(s2, UnavailableText)
        ELSE startRecognition(setupSpeechRecognitionBehaviour(s2))

Initialize ==
    /\ ~initialized
    /\ Commit(ngOnInit(State, recognitionSupported))

----------------------------------------------------------------------------
(* The voice-list subscription installed by ngOnInit *)

\* The voices of the reported list kept after those offered before
onVoiceListUpdatedAppending(s, allVoices) ==
    LET s1 == Handler(s, "onVoiceListUpdated", <<allVoices>>)
        germanVoices == SelectSeq(allVoices, LAMBDA voice : voice.lang = "de-DE")
    IN  [s1 EXCEPT !.availableVoices = @ \o germanVoices]

onVoiceListUpdated(s, allVoices) ==
    LET s1 == Handler(s, "onVoiceListUpdated", <<allVoices>>)
        germanVoices == SelectSeq(allVoices, LAMBDA voice : voice.lang = "de-DE")
    IN  [s1 EXCEPT !.availableVoices = germanVoices]

VoiceListUpdated ==
    /\ initialized
    /\ \E allVoices \in VoiceLists :
          Commit(onVoiceListUpdated(State, allVoices))

----------------------------------------------------------------------------
(* The deletion-result subscription installed by ngOnInit *)

onPathwayEventDeleted(s, result) ==
    LET s1 == [Handler(s, "onPathwayEventDeleted", <<result>>)
                  EXCEPT !.speechStartOneShots = @ + 1]
    IN  IF result = TRUE
        THEN speakUtterance(s1, DeletedText)
        ELSE speakUtterance(s1, NotFoundText)

PathwayEventDeleted ==
    /\ initialized
    /\ \E result \in BOOLEAN : Commit(onPathwayEventDeleted(State, result))

----------------------------------------------------------------------------
(* The microphone button *)

onActivateVoiceControl(s) ==
    restartSpeechRecognition(Handler(s, "onActivateVoiceControl", <<>>))

onDeactivateVoiceControl(s) ==
    stopRecognition(Handler(s, "onDeactivateVoiceControl", <<>>))

\* The button activates while the component is not listening and
\* deactivates while it is (lines 129 and 138); an open dialog is modal and
\* keeps the user from the button.
ActivateVoiceControl ==
    /\ initialized
    /\ ~pathIsListening
    /\ appointmentDialogs + helpDialogs = 0
    /\ Commit(onActivateVoiceControl(State))

DeactivateVoiceControl ==
    /\ initialized
    /\ pathIsListening
    /\ appointmentDialogs + helpDialogs = 0
    /\ Commit(onDeactivateVoiceControl(State))

----------------------------------------------------------------------------
(* The dialogs *)

openHelpDialog(s) ==
    [Call(s, "openHelpDialog", <<>>) EXCEPT !.helpDialogs = @ + 1]

helpDialogAfterClosed(s) ==
    restartSpeechRecognition(
        [Handler(s, "helpDialogAfterClosed", <<>>) EXCEPT !.helpDialogs = @ - 1])

HelpDialogClosed ==
    /\ helpDialogs > 0
    /\ Commit(helpDialogAfterClosed(State))

\* The dialog opened without clearing the listening flag
openDialogKeepingListeningFlag(s) ==
    LET s1 == stopRecognition(s)
        s3 == unsubscribeFromAllSubscriptions(s1)
    IN  [Call(s3, "openAppointmentCreatorDialog", <<>>)
            EXCEPT !.appointmentDialogs = @ + 1]

openAndHandlePathwayAppointmentCreatorDialog(s) ==
    LET s1 == stopRecognition(s)
        s2 == [s1 EXCEPT !.pathIsListening = FALSE]
        s3 == unsubscribeFromAllSubscriptions(s2)
    IN  [Call(s3, "openAppointmentCreatorDialog", <<>>)
            EXCEPT !.appointmentDialogs = @ + 1]

\* The closing handler that speaks without waiting for the speech-end
appointmentDialogAfterClosedNotWaiting(s, result) ==
    LET s0 == [Handler(s, "appointmentDialogAfterClosed", <<result>>)
                  EXCEPT !.appointmentDialogs = @ - 1]
    IN  IF result.present
        THEN IF isPathwayEvent(result)
             THEN speakUtterance(
                    emit(s0, "newPathwayEventCreated", <<result>>),
                    CreatedText)
             ELSE speakUtterance(displayMessage(s0, result.data), result.data)
        ELSE restartSpeechRecognition(s0)

appointmentDialogAfterClosed(s, result) ==
    LET s0 == [Handler(s, "appointmentDialogAfterClosed", <<result>>)
                  EXCEPT !.appointmentDialogs = @ - 1]
    IN  IF result.present
        THEN LET s1 == [Call(s0, "subscribeOnSpeechEnd", <<>>)
                           EXCEPT !.speechEndOneShots =
                           Append(@, [origin |-> "dialog", stale |-> FALSE])]
             IN  IF isPathwayEvent(result)
                 THEN speakUtterance(
                        emit(s1, "newPathwayEventCreated", <<result>>),
                        CreatedText)
                 ELSE speakUtterance(displayMessage(s1, result.data), result.data)
        ELSE restartSpeechRecognition(s0)

AppointmentDialogClosed ==
    /\ appointmentDialogs > 0
    /\ \E result \in DialogResults :
          Commit(appointmentDialogAfterClosed(State, result))

----------------------------------------------------------------------------
(* The four recognition handlers of setupSpeechRecognitionBehaviour *)

Subscribed(s, kind) ==
    \E i \in 1..Len(s.subscriptions) : s.subscriptions[i] = kind

HasHandler(kind) == Subscribed(State, kind)

\* The delete and show cases without the trim of the event name
deleteCaseUntrimmed(s, recognitionResult) ==
    LET eventName == substr(recognitionResult, indexOf(recognitionResult, " "))
        s1 == IF eventName # <<>>
              THEN emit(s, "userWantsDoDeleteEvent", eventName) ELSE s
        s2 == Call(restartSpeechRecognition(s1), "subscribeOnSpeechEnd", <<>>)
    IN  [s2 EXCEPT !.speechEndOneShots =
            Append(@, [origin |-> "delete", stale |-> FALSE])]

deleteCase(s, recognitionResult) ==
    LET eventName == EventName(recognitionResult)
        s1 == IF eventName # <<>>
              THEN emit(s, "userWantsDoDeleteEvent", eventName) ELSE s
        s2 == Call(restartSpeechRecognition(s1), "subscribeOnSpeechEnd", <<>>)
    IN  [s2 EXCEPT !.speechEndOneShots =
            Append(@, [origin |-> "delete", stale |-> FALSE])]

showCase(s, recognitionResult) ==
    LET eventName == EventName(recognitionResult)
        s1 == IF eventName # <<>>
              THEN emit(s, "userWantsToOpenEvent", eventName) ELSE s
    IN  restartSpeechRecognition(s1)

\* "auf ein wiederhören": the session ends; the one-shots pending now belong
\* to the session that ended (history only).
goodbyeCase(s) ==
    LET s1 == stopRecognition(displayMessage(s, FarewellText))
    IN  MarkStale([s1 EXCEPT !.sessionEnded = TRUE])

defaultCase(s) ==
    restartSpeechRecognition(displayMessage(s, UnsupportedText))

\* The result handler without the conversion to lower case
onSpeechRecognitionResultAvailableCaseSensitive(s, data) ==
    LET s1 == stopRecognition(
                Handler(s, "onSpeechRecognitionResultAvailable", data))
        recognitionResult == data
        case == SwitchCase(recognitionResult)
    IN  IF case = "neuer termin"
            THEN openAndHandlePathwayAppointmentCreatorDialog(s1)
        ELSE IF case = "auf ein wiederhören" THEN goodbyeCase(s1)
        ELSE IF case = "hilfe" THEN openHelpDialog(s1)
        ELSE IF case = "lösche" THEN deleteCase(s1, recognitionResult)
        ELSE IF case = "zeige" THEN showCase(s1, recognitionResult)
        ELSE defaultCase(s1)

onSpeechRecognitionResultAvailable(s, data) ==
    LET s1 == stopRecognition(
                Handler(s, "onSpeechRecognitionResultAvailable", data))
        recognitionResult == toLowerCase(data)
        case == SwitchCase(recognitionResult)
    IN  IF case = "neuer termin"
            THEN openAndHandlePathwayAppointmentCreatorDialog(s1)
        ELSE IF case = "auf ein wiederhören" THEN goodbyeCase(s1)
        ELSE IF case = "hilfe" THEN openHelpDialog(s1)
        ELSE IF case = "lösche" THEN deleteCase(s1, recognitionResult)
        ELSE IF case = "zeige" THEN showCase(s1, recognitionResult)
        ELSE defaultCase(s1)

\* The channel reports a result while it is started.
RecognitionResult ==
    /\ HasHandler("result")
    /\ recActive
    /\ \E data \in Transcripts :
          Commit(onSpeechRecognitionResultAvailable(State, data))

\* The same handler, for the transcripts of Phrases
RecognitionResultOfPhrase ==
    /\ HasHandler("result")
    /\ recActive
    /\ \E data \in Phrases :
          Commit(onSpeechRecognitionResultAvailable(State, data))

onSpeechRecognitionStarted(s) ==
    LET s1 == [Handler(s, "onSpeechRecognitionStarted", <<>>)
                  EXCEPT !.pendingRec = Tail(@)]
    IN  IF Subscribed(s, "started")
        THEN [s1 EXCEPT !.pathIsListening = TRUE] ELSE s1

onSpeechRecognitionEnded(s) ==
    LET s1 == [Handler(s, "onSpeechRecognitionEnded", <<>>)
                  EXCEPT !.pendingRec = Tail(@)]
    IN  IF Subscribed(s, "ended")
        THEN [s1 EXCEPT !.pathIsListening = FALSE] ELSE s1

\* The channel delivers its lifecycle events in order, some time after the
\* start or stop that caused them, to the handlers subscribed by then.
RecognitionStarted ==
    /\ pendingRec # <<>>
    /\ Head(pendingRec) = "started"
    /\ Commit(onSpeechRecognitionStarted(State))

RecognitionEnded ==
    /\ pendingRec # <<>>
    /\ Head(pendingRec) = "ended"
    /\ Commit(onSpeechRecognitionEnded(State))

\* The error handler starting the recognition again without the restart
onSpeechRecognitionErrorStartingOnly(s) ==
    startRecognition(Handler(s, "onSpeechRecognitionError", <<>>))

onSpeechRecognitionError(s) ==
    restartSpeechRecognition(Handler(s, "onSpeechRecognitionError", <<>>))

\* The channel reports an error while it is started, or stopped and its
\* "ended" event not yet delivered.
RecognitionError ==
    /\ HasHandler("error")
    /\ \/ recActive
       \/ \E i \in 1..Len(pendingRec) : pendingRec[i] = "ended"
    /\ Commit(onSpeechRecognitionError(State))

----------------------------------------------------------------------------
(* The synthesis channel's events and the one-shot handlers *)

\* Each pending onSpeechStart one-shot (line 94) unsubscribes itself and
\* stops the recognition.
RECURSIVE fireSpeechStartOneShots(_, _)
fireSpeechStartOneShots(s, n) ==
    IF n = 0 THEN s
    ELSE fireSpeechStartOneShots(
            stopRecognition(Call(s, "speechStartOneShot", <<>>)), n - 1)

onSpeechStart(s) ==
    LET s1 == [Handler(s, "onSpeechStart", <<s.utterances[1].kind>>)
                  EXCEPT !.utterances[1].started = TRUE,
                         !.speechStartOneShots = 0]
    IN  fireSpeechStartOneShots(s1, s.speechStartOneShots)

SpeechStart ==
    /\ utterances # <<>>
    /\ ~utterances[1].started
    /\ Commit(onSpeechStart(State))

\* Each pending onSpeechEnd one-shot (lines 266 and 375) unsubscribes itself
\* and restarts the recognition.
RECURSIVE fireSpeechEndOneShots(_, _)
fireSpeechEndOneShots(s, shots) ==
    IF shots = <<>> THEN s
    ELSE fireSpeechEndOneShots(
            restartSpeechRecognition(
                Call(s, "speechEndOneShot",
                     <<Head(shots).origin,
                       IF Head(shots).stale THEN "stale" ELSE "current">>)),
            Tail(shots))

onSpeechEnd(s) ==
    LET s1 == [Handler(s, "onSpeechEnd", <<s.utterances[1].kind>>)
                  EXCEPT !.utterances = Tail(@),
                         !.speechEndOneShots = <<>>]
    IN  fireSpeechEndOneShots(s1, s.speechEndOneShots)

SpeechEnd ==
    /\ utterances # <<>>
    /\ utterances[1].started
    /\ Commit(onSpeechEnd(State))

----------------------------------------------------------------------------

Init ==
    /\ recognitionSupported \in BOOLEAN
    /\ initialized = FALSE
    /\ speechRecognitionAvailable = FALSE
    /\ pathIsListening = FALSE
    /\ availableVoices = <<>>
    /\ currentSpeechRecognitionServiceSubscriptions = <<>>
    /\ recActive = FALSE
    /\ pendingRec = <<>>
    /\ utterances = <<>>
    /\ speechStartOneShots = 0
    /\ speechEndOneShots = <<>>
    /\ appointmentDialogs = 0
    /\ helpDialogs = 0
    /\ sessionEnded = FALSE
    /\ calls = <<>>

Next ==
    \/ Initialize
    \/ PathwayEventDeleted
    \/ ActivateVoiceControl
    \/ DeactivateVoiceControl
    \/ HelpDialogClosed
    \/ AppointmentDialogClosed
    \/ RecognitionResult
    \/ RecognitionStarted
    \/ RecognitionEnded
    \/ RecognitionError
    \/ SpeechStart
    \/ SpeechEnd

Spec == Init /\ [][Next]_vars

\* The behaviours in which the user never touches the microphone button
NextHandsFree ==
    \/ Initialize
    \/ PathwayEventDeleted
    \/ HelpDialogClosed
    \/ AppointmentDialogClosed
    \/ RecognitionResult
    \/ RecognitionStarted
    \/ RecognitionEnded
    \/ RecognitionError
    \/ SpeechStart
    \/ SpeechEnd

SpecHandsFree == Init /\ [][NextHandsFree]_vars

\* Every dialog is closed at some time, and every utterance starts and ends.
Fairness ==
    /\ WF_vars(HelpDialogClosed)
    /\ WF_vars(AppointmentDialogClosed)
    /\ WF_vars(SpeechStart)
    /\ WF_vars(SpeechEnd)

SpecFair == Spec /\ Fairness

\* The behaviours of a conversation: results, dialogs and utterances, without
\* deletion results, channel errors and the microphone button
NextConversation ==
    \/ Initialize
    \/ RecognitionResult
    \/ HelpDialogClosed
    \/ AppointmentDialogClosed
    \/ RecognitionStarted
    \/ RecognitionEnded
    \/ SpeechStart
    \/ SpeechEnd

SpecConversation == Init /\ [][NextConversation]_vars /\ Fairness

\* The behaviours in which only recognition results arrive, over Phrases
NextClassify ==
    \/ Initialize
    \/ RecognitionResultOfPhrase
    \/ RecognitionStarted
    \/ RecognitionEnded

SpecClassify == Init /\ [][NextClassify]_vars

\* The behaviours in which only voice lists arrive
NextVoices ==
    \/ Initialize
    \/ VoiceListUpdated

SpecVoices == Init /\ [][NextVoices]_vars

----------------------------------------------------------------------------
(* Reading the trace of the last handler *)

LastHandler == IF calls = <<>> THEN "none" ELSE calls[1].op

HasCall(op) == \E i \in 1..Len(calls) : calls[i].op = op

CountCalls(op) == Cardinality({i \in 1..Len(calls) : calls[i].op = op})

Outputs == {"newPathwayEventCreated", "userWantsToOpenEvent", "userWantsDoDeleteEvent"}

\* The handlers no user action triggers
NonUserHandlers ==
    {"onSpeechRecognitionError", "onSpeechRecognitionStarted",
     "onSpeechRecognitionEnded", "onSpeechStart", "onSpeechEnd",
     "onPathwayEventDeleted"}

\* The target phrase of a command: the text after the first whitespace of
\* the transcript, trimmed; none when the transcript has no whitespace.
HasWhitespace(r) == \E i \in 1..Len(r) : r[i] \in WhiteSpace

TextAfterFirstWhitespace(r) ==
    LET first == CHOOSE i \in 1..Len(r) :
                    /\ r[i] \in WhiteSpace
                    /\ \A j \in 1..(i-1) : r[j] \notin WhiteSpace
    IN  trim(SubSeq(r, first + 1, Len(r)))

HasTarget(r) == HasWhitespace(r) /\ TextAfterFirstWhitespace(r) # <<>>

\* The last handler was the result handler, and its transcript, lower-cased
ResultHandled == LastHandler = "onSpeechRecognitionResultAvailable"

HandledTranscript == toLowerCase(calls[1].arg)

----------------------------------------------------------------------------
(* C1 *)

\* C1: mutual exclusion.  No handler calls speakUtterance while the
\* recognition is started and not yet stopped, and no handler calls
\* startRecognition while an utterance is spoken and has not ended.
C1_MutualExclusion ==
    \A i \in 1..Len(calls) :
        /\ calls[i].op = "speakUtterance" => calls[i].arg[2] = FALSE
        /\ calls[i].op = "startRecognition" => calls[i].arg = <<>>

----------------------------------------------------------------------------
(* C2 *)

\* C2: appointment creation round trip.  When the appointment creator dialog
\* closes with a valid event, newPathwayEventCreated is emitted exactly once
\* with that event and the success utterance is spoken; and startRecognition
\* is not called while the success utterance is spoken and has not ended.
C2_CreationRoundTrip ==
    /\ (LastHandler = "appointmentDialogAfterClosed"
            /\ isPathwayEvent(calls[1].arg[1]))
        => /\ CountCalls("newPathwayEventCreated") = 1
           /\ \E i \in 1..Len(calls) :
                 /\ calls[i].op = "newPathwayEventCreated"
                 /\ calls[i].arg = calls[1].arg
           /\ \E i \in 1..Len(calls) :
                 /\ calls[i].op = "speakUtterance"
                 /\ calls[i].arg[1] = CreatedText
    /\ \A i \in 1..Len(calls) :
          calls[i].op = "startRecognition"
            => \A k \in 1..Len(calls[i].arg) : calls[i].arg[k] # "created"

----------------------------------------------------------------------------
(* C3 *)

\* C3: stale one-shot handlers are no-ops.  A one-shot speech-end handler
\* whose generation was cancelled (by a restart or by EndSession) before
\* the speech-end event fires does not restart the recognition (stated
\* where the recognition is supported).
C3_StaleOneShotsAreNoOps ==
    recognitionSupported
        => \A i \in 1..Len(calls) :
              (calls[i].op = "speechEndOneShot" /\ calls[i].arg[2] = "stale")
                => ~(i < Len(calls)
                        /\ calls[i + 1].op = "restartSpeechRecognition")

----------------------------------------------------------------------------
(* C4 *)

\* C4: subscription hygiene.  At most one setup's four recognition handlers
\* are active, so a recognition result is handled by one result handler; and
\* setupSpeechRecognitionBehaviour is never called while subscriptions of a
\* previous setup are active.
C4_SubscriptionHygiene ==
    /\ Len(currentSpeechRecognitionServiceSubscriptions) \in {0, 4}
    /\ \A kind \in {"result", "started", "ended", "error"} :
          Cardinality({i \in 1..Len(currentSpeechRecognitionServiceSubscriptions) :
              currentSpeechRecognitionServiceSubscriptions[i] = kind}) <= 1
    /\ \A i \in 1..Len(calls) :
          calls[i].op = "setupSpeechRecognitionBehaviour" => calls[i].arg = <<0>>

\* One handler has restarted the recognition twice in succession.
C4_Witness ==
    /\ CountCalls("restartSpeechRecognition") >= 2
    /\ CountCalls("setupSpeechRecognitionBehaviour") >= 2
    /\ Len(currentSpeechRecognitionServiceSubscriptions) = 4

----------------------------------------------------------------------------
(* C5 *)

\* C5: EndSession does not auto-restart.  The handler of a result classified
\* as EndSession displays the farewell notice and leaves the recognition
\* stopped; and once the session has ended, no handler other than a user's
\* calls startRecognition.
C5_EndSessionNoAutoRestart ==
    [][ /\ (calls'[1].op = "onSpeechRecognitionResultAvailable"
              /\ SwitchCase(toLowerCase(calls'[1].arg)) = "auf ein wiederhören")
            => /\ \E i \in 1..Len(calls') :
                     /\ calls'[i].op = "displayMessage"
                     /\ calls'[i].arg = <<FarewellText>>
               /\ ~recActive'
               /\ \A i \in 1..Len(calls') : calls'[i].op # "startRecognition"
        /\ (sessionEnded /\ calls'[1].op \in NonUserHandlers)
            => \A i \in 1..Len(calls') : calls'[i].op # "startRecognition"
      ]_vars

----------------------------------------------------------------------------
(* C6 *)

\* C6: deletion-result recovery.  The deletion-result handler speaks the
\* confirmation, and the speech-end event of a deletion confirmation
\* restarts the recognition, so that the component returns to listening
\* (stated where the recognition is supported).
C6_DeletionResultRecovery ==
    recognitionSupported
        => /\ LastHandler = "onPathwayEventDeleted" => HasCall("speakUtterance")
           /\ (LastHandler = "onSpeechEnd" /\ calls[1].arg = <<"deletion">>)
                => (HasCall("startRecognition") /\ recActive)

----------------------------------------------------------------------------
(* C7 *)

\* C7: unavailable capability at initialization.  If initRecognition reports
\* the recognition unavailable, ngOnInit installs no recognition handlers,
\* does not call startRecognition and displays exactly one notice.
C7_UnavailableAtInit ==
    (LastHandler = "ngOnInit" /\ ~recognitionSupported)
        => /\ currentSpeechRecognitionServiceSubscriptions = <<>>
           /\ ~HasCall("setupSpeechRecognitionBehaviour")
           /\ ~HasCall("startRecognition")
           /\ ~recActive
           /\ ~speechRecognitionAvailable
           /\ CountCalls("displayMessage") = 1

\* ngOnInit has just run where the recognition is not supported.
C7_Witness ==
    /\ LastHandler = "ngOnInit"
    /\ initialized
    /\ ~recognitionSupported
    /\ HasCall("displayMessage")

----------------------------------------------------------------------------
(* C8 *)

\* C8: restart re-checks availability.  While the recognition capability is
\* unavailable, no handler installs recognition handlers or calls
\* startRecognition: the session never starts.
C8_UnavailableNeverStarts ==
    ~recognitionSupported
        => /\ currentSpeechRecognitionServiceSubscriptions = <<>>
           /\ ~recActive
           /\ ~HasCall("setupSpeechRecognitionBehaviour")
           /\ ~HasCall("startRecognition")

----------------------------------------------------------------------------
(* C9 *)

\* C9: delete/show dispatch.  For a result classified as delete or show
\* whose target (the trimmed text after the first whitespace of the
\* lower-cased transcript) is not empty, the handler emits the matching
\* output exactly once, with that target, emits no other output, and
\* restarts the recognition after it.
C9_DeleteShowDispatch ==
    (ResultHandled
        /\ SwitchCase(HandledTranscript) \in {"lösche", "zeige"}
        /\ HasTarget(HandledTranscript))
    => LET output == IF SwitchCase(HandledTranscript) = "lösche"
                     THEN "userWantsDoDeleteEvent"
                     ELSE "userWantsToOpenEvent"
       IN  /\ CountCalls(output) = 1
           /\ \A o \in Outputs \ {output} : ~HasCall(o)
           /\ \E i \in 1..Len(calls) :
                 /\ calls[i].op = output
                 /\ calls[i].arg = TextAfterFirstWhitespace(HandledTranscript)
                 /\ \E j \in (i+1)..Len(calls) :
                       calls[j].op = "restartSpeechRecognition"
                 /\ \E j \in (i+1)..Len(calls) :
                       calls[j].op = "startRecognition"
           /\ recActive

\* "Lösche Zahn X" has been handled: the target "zahn x" has been emitted.
C9_Witness ==
    /\ ResultHandled
    /\ SwitchCase(HandledTranscript) = "lösche"
    /\ \E i \in 1..Len(calls) :
          /\ calls[i].op = "userWantsDoDeleteEvent"
          /\ calls[i].arg = <<"z","a","h","n"," ","x">>
    /\ HasCall("startRecognition")

----------------------------------------------------------------------------
(* C10 *)

\* C10: empty command target.  For a transcript that matches the delete or
\* show pattern and carries no target phrase after the command word, the
\* handler emits no output, and still restarts the recognition.
C10_EmptyTargetNotEmitted ==
    (ResultHandled
        /\ SwitchCase(HandledTranscript) \in {"lösche", "zeige"}
        /\ ~HasTarget(HandledTranscript))
    => /\ \A o \in Outputs : ~HasCall(o)
       /\ HasCall("restartSpeechRecognition")
       /\ HasCall("startRecognition")

----------------------------------------------------------------------------
(* C11, C12 *)

\* Two characters are the same letter, whatever their case
SameLetter(c, d) ==
    \/ c = d
    \/ \E i \in 1..Len(UpperChars) : {c, d} = {UpperChars[i], LowerChars[i]}

\* The transcript says the phrase: the phrase occurs in it, in any letter
\* case, a blank of the phrase standing for one whitespace character.
Says(t, phrase) ==
    \E i \in 0..(Len(t) - Len(phrase)) :
        \A k \in 1..Len(phrase) :
            IF phrase[k] = " " THEN t[i + k] \in WhiteSpace
                               ELSE SameLetter(t[i + k], phrase[k])

\* The command rules in their order: the intent and the phrase of each
CommandRules ==
    << [intent |-> "CreateAppointment", phrase |-> <<"n","e","u","e","r"," ","t","e","r","m","i","n">>],
       [intent |-> "EndSession", phrase |-> <<"a","u","f"," ","e","i","n"," ","w","i","e","d","e","r","h","ö","r","e","n">>],
       [intent |-> "Help", phrase |-> <<"h","i","l","f","e">>],
       [intent |-> "Delete", phrase |-> <<"l","ö","s","c","h","e">>],
       [intent |-> "Show", phrase |-> <<"z","e","i","g","e">>] >>

\* The intent of a transcript: that of the first rule whose phrase it says
Intent(t) ==
    IF \E i \in 1..Len(CommandRules) : Says(t, CommandRules[i].phrase)
    THEN CommandRules[CHOOSE i \in 1..Len(CommandRules) :
            /\ Says(t, CommandRules[i].phrase)
            /\ \A j \in 1..(i-1) : ~Says(t, CommandRules[j].phrase)].intent
    ELSE "Unrecognized"

HasDisplayed(text) ==
    \E i \in 1..Len(calls) :
        calls[i].op = "displayMessage" /\ calls[i].arg = <<text>>

\* What the last handler did, as the intents whose handling it shows
Dispatched ==
    {x \in {"CreateAppointment", "EndSession", "Help", "Delete", "Show",
            "Unrecognized"} :
        CASE x = "CreateAppointment" -> HasCall("openAppointmentCreatorDialog")
          [] x = "EndSession" -> HasDisplayed(FarewellText)
          [] x = "Help" -> HasCall("openHelpDialog")
          [] x = "Delete" -> HasCall("subscribeOnSpeechEnd")
          [] x = "Show" -> /\ HasCall("restartSpeechRecognition")
                           /\ ~HasCall("subscribeOnSpeechEnd")
                           /\ ~HasCall("displayMessage")
          [] x = "Unrecognized" -> HasDisplayed(UnsupportedText)}

NeuenTerminSentence ==
    <<"I","c","h"," ","m","ö","c","h","t","e"," ","e","i","n","e","n"," ","n","e","u","e","n"," ","T","e","r","m","i","n"," ","b","i","t","t","e">>

\* C11 as stated: a transcript that says "neuer termin" in any letter case,
\* and in particular the sentence "Ich möchte einen neuen Termin bitte",
\* opens the appointment creator dialog.
C11_AsStated ==
    (ResultHandled
        /\ (Says(calls[1].arg, <<"n","e","u","e","r"," ","t","e","r","m","i","n">>)
            \/ calls[1].arg = NeuenTerminSentence))
    => HasCall("openAppointmentCreatorDialog")

\* C11: new-appointment classification.  A transcript that says "neuer
\* termin" (the two words separated by one whitespace character) in any
\* letter case opens the appointment creator dialog; the sentence "Ich
\* möchte einen neuen Termin bitte" says "neuen", not "neuer", and is
\* answered as an unsupported command without opening the dialog.
C11_NewAppointmentClassification ==
    /\ (ResultHandled /\ Says(calls[1].arg, <<"n","e","u","e","r"," ","t","e","r","m","i","n">>))
       => /\ HasCall("openAppointmentCreatorDialog")
          /\ appointmentDialogs = 1
    /\ (ResultHandled /\ calls[1].arg = NeuenTerminSentence)
       => /\ ~HasCall("openAppointmentCreatorDialog")
          /\ HasDisplayed(UnsupportedText)

\* "bitte NEUER TERMIN bitte" has been handled and the dialog is open.
C11_Witness ==
    /\ ResultHandled
    /\ calls[1].arg = <<"b","i","t","t","e"," ","N","E","U","E","R"," ","T","E","R","M","I","N"," ","b","i","t","t","e">>
    /\ HasCall("openAppointmentCreatorDialog")
    /\ appointmentDialogs = 1

\* C12: rule order.  The handling of a result is that of the first rule, in
\* the order new appointment, goodbye, help, delete, show, whose phrase the
\* transcript says, and that of an unrecognized command when it says none;
\* exactly one handling takes place per result.
C12_RuleOrder ==
    ResultHandled => Dispatched = {Intent(calls[1].arg)}

\* "hilfe neuer termin" opened the appointment creator, or "hilfe lösche x"
\* the help dialog.
C12_Witness ==
    /\ ResultHandled
    /\ \/ /\ calls[1].arg = <<"h","i","l","f","e"," ","n","e","u","e","r"," ","t","e","r","m","i","n">>
          /\ Dispatched = {"CreateAppointment"}
       \/ /\ calls[1].arg = <<"h","i","l","f","e"," ","l","ö","s","c","h","e"," ","x">>
          /\ Dispatched = {"Help"}

----------------------------------------------------------------------------
(* C13 *)

DialogOpen == appointmentDialogs + helpDialogs > 0

\* C13: modal dialogs suspend voice control.  A handler that has opened the
\* appointment creator or the help dialog leaves no recognition handler
\* subscribed, and none is subscribed while a dialog is open.
C13_DialogsSuspendVoiceControl ==
    /\ (HasCall("openAppointmentCreatorDialog") \/ HasCall("openHelpDialog"))
       => currentSpeechRecognitionServiceSubscriptions = <<>>
    /\ DialogOpen => currentSpeechRecognitionServiceSubscriptions = <<>>

----------------------------------------------------------------------------
(* C14 *)

\* The operations the last handler called, in order
CalledOps == [i \in 1..Len(calls) |-> calls[i].op]

\* C14: error recovery.  The error handler does a full restart and nothing
\* else: it cancels all handlers, stops the recognition, initializes it,
\* installs the handlers while none is subscribed and starts the
\* recognition; afterwards exactly one handler set is subscribed and the
\* recognition is started.
C14_ErrorRecovery ==
    LastHandler = "onSpeechRecognitionError"
    => /\ CalledOps = << "onSpeechRecognitionError",
                         "restartSpeechRecognition", "stopRecognition",
                         "initRecognition",
                         "setupSpeechRecognitionBehaviour",
                         "startRecognition" >>
       /\ calls[5].arg = <<0>>
       /\ currentSpeechRecognitionServiceSubscriptions =
             <<"result", "started", "ended", "error">>
       /\ recActive

\* An error has been handled while the help dialog was open and an
\* utterance was queued.
C14_Witness ==
    /\ LastHandler = "onSpeechRecognitionError"
    /\ helpDialogs = 1
    /\ utterances # <<>>
    /\ recActive
    /\ Len(currentSpeechRecognitionServiceSubscriptions) = 4

----------------------------------------------------------------------------
(* C15 *)

DialogClosedWith(result) ==
    LastHandler = "appointmentDialogAfterClosed" /\ calls[1].arg = <<result>>

\* The closing handler itself, for an error message and for no result
C15_ClosingHandler ==
    /\ DialogClosedWith(ErrorMessage)
       => /\ HasDisplayed(ErrorMessage.data)
          /\ \E i \in 1..Len(calls) :
                /\ calls[i].op = "speakUtterance"
                /\ calls[i].arg[1] = ErrorMessage.data
          /\ ~HasCall("newPathwayEventCreated")
          /\ ~HasCall("startRecognition")
    /\ DialogClosedWith(NoResult)
       => /\ ~HasCall("speakUtterance")
          /\ ~HasCall("newPathwayEventCreated")
          /\ HasCall("restartSpeechRecognition")
          /\ HasCall("startRecognition")

\* C15: appointment dialog closed without a created event.  Closed with an
\* error message, the message is displayed and spoken, no
\* newPathwayEventCreated is emitted, and startRecognition is not called
\* while the spoken message has not ended; closed with no result, nothing is
\* spoken and the recognition restarts in the closing handler.
C15_CloseWithoutCreatedEvent ==
    /\ C15_ClosingHandler
    /\ recognitionSupported
       => \A i \in 1..Len(calls) :
             calls[i].op = "startRecognition"
               => \A k \in 1..Len(calls[i].arg) : calls[i].arg[k] # "message"

----------------------------------------------------------------------------
(* C16 *)

\* C16: listening flag accuracy.  When every lifecycle event of the
\* recognition channel has been delivered, pathIsListening is true exactly
\* when the channel is started.
C16_ListeningFlagAccuracy ==
    pendingRec = <<>> => (pathIsListening <=> recActive)

\* The appointment creator dialog is open and the "ended" event of the stop
\* that preceded it has been delivered while no handler was subscribed.
C16_Witness ==
    /\ LastHandler = "onSpeechRecognitionEnded"
    /\ appointmentDialogs = 1
    /\ currentSpeechRecognitionServiceSubscriptions = <<>>
    /\ pendingRec = <<>>
    /\ ~pathIsListening
    /\ ~recActive

----------------------------------------------------------------------------
(* C17 *)

\* g is the list of the "de-DE" entries of all, in their order in all
IsGermanSelection(g, all) ==
    LET german == {i \in 1..Len(all) : all[i].lang = "de-DE"}
    IN  /\ Len(g) = Cardinality(german)
        /\ \E pos \in [1..Len(g) -> 1..Len(all)] :
              /\ {pos[k] : k \in 1..Len(g)} = german
              /\ \A k \in 1..Len(g) : \A l \in 1..Len(g) :
                    k < l => pos[k] < pos[l]
              /\ \A k \in 1..Len(g) : g[k] = all[pos[k]]

\* C17: voice list filtering.  availableVoices holds only "de-DE" voices;
\* after a voice-list-updated event it is exactly the "de-DE" entries of
\* the reported list in their original order, whatever it held before, and
\* before the first such event it is empty.
C17_VoiceListFiltering ==
    /\ \A i \in 1..Len(availableVoices) : availableVoices[i].lang = "de-DE"
    /\ LastHandler = "onVoiceListUpdated"
       => IsGermanSelection(availableVoices, calls[1].arg[1])
    /\ LastHandler # "onVoiceListUpdated" => availableVoices = <<>>

\* The list Markus, Samantha, Anna has been reported: Markus and Anna are
\* offered, in that order.
C17_Witness ==
    /\ LastHandler = "onVoiceListUpdated"
    /\ calls[1].arg[1] = << [voiceURI |-> "Markus", lang |-> "de-DE"],
                            [voiceURI |-> "Samantha", lang |-> "en-US"],
                            [voiceURI |-> "Anna", lang |-> "de-DE"] >>
    /\ availableVoices = << [voiceURI |-> "Markus", lang |-> "de-DE"],
                            [voiceURI |-> "Anna", lang |-> "de-DE"] >>

----------------------------------------------------------------------------
(* C18 *)

\* C18: no silent freeze.  With recognition available, dialogs that are
\* closed at some time and utterances that end, every handled result other
\* than the goodbye command leads to a call of startRecognition.
C18_NoSilentFreeze ==
    (ResultHandled
        /\ recognitionSupported
        /\ SwitchCase(HandledTranscript) # "auf ein wiederhören")
    ~> HasCall("startRecognition")

\* The speech-end of an utterance has fired the one-shot of the appointment
\* creator dialog, which has started the recognition.
C18_Witness ==
    /\ recognitionSupported
    /\ LastHandler = "onSpeechEnd"
    /\ \E i \in 1..Len(calls) :
          /\ calls[i].op = "speechEndOneShot"
          /\ calls[i].arg = <<"dialog", "current">>
    /\ HasCall("startRecognition")

----------------------------------------------------------------------------
(* C19 *)

\* One speech-end event restarts the recognition at most once
OneRestartPerSpeechEnd ==
    LastHandler = "onSpeechEnd" => CountCalls("restartSpeechRecognition") <= 1

\* C19: bounded pending one-shots.  At most one speech-end one-shot is
\* pending at any time, and one speech-end event causes at most one restart
\* of the recognition.
C19_BoundedPendingOneShots ==
    /\ Len(speechEndOneShots) <= 1
    /\ OneRestartPerSpeechEnd

====
